---------------------------- MODULE Spec2Model ----------------------------
(***************************************************************************)
(* github-mcp-server: the feature registry (pkg/features/features.go), the *)
(* resolution of the enabled-feature list (initFeatures) and the stdio     *)
(* supervisor with its output decoration (runStdioServer) of cmd/.../main. *)
(*                                                                         *)
(* Three specifications share the variables:                               *)
(*   Spec      the FeatureSet under arbitrary calls of its four methods    *)
(*   SpecInit  initFeatures applied to an environment value and a flag list*)
(*   SpecSrv   runStdioServer: supervisor, serve task, signal, writes      *)
(***************************************************************************)
EXTENDS Naturals, Sequences, FiniteSets

VARIABLES
    fs,                 \* the FeatureSet: [Features, everythingOn]
    last,               \* the last call: operation, arguments, results, FeatureSet before it
    defaults,           \* history, kept until the first enable call: name -> enabled
                        \* argument of the last AddFeature for it
    enableCalled,       \* history: some EnableFeature / EnableFeatures call was made
    everythingEnabled,  \* history: EnableFeature("everything") has returned nil
    envFeats,           \* os.Getenv("GITHUB_FEATURES"), a sequence of text chunks
    flagFeats,          \* viper.GetStringSlice("features")
    cfg,                \* runConfig: logCommands, prettyPrintJSON
    supPc,              \* where runStdioServer stands
    servePc,            \* where the goroutine around stdioServer.Listen stands
    ctxDone,            \* ctx.Done() is closed
    errC,               \* the result channel, a queue of at most ChanCap values
    listenErr,          \* what Listen returned: "none" (not yet), "nil", "err"
    received,           \* what the select took from errC: "none", "nil", "err"
    selected,           \* the case that woke the parked select: "none", "done", "errC"
    ret,                \* what runStdioServer returned
    io,                 \* the writes that reached os.Stdout and the log sink
    served,             \* history: the Write calls of the server, with their results
    signalled,          \* history: SIGINT / SIGTERM was delivered
    signalFirst         \* history: it was delivered before any error was put on errC

regVars == <<fs, last, defaults, enableCalled, everythingEnabled>>
inVars == <<envFeats, flagFeats>>
srvVars == <<cfg, supPc, servePc, ctxDone, errC, listenErr, received, selected, ret, io, served,
             signalled, signalFirst>>
vars == <<fs, last, defaults, enableCalled, everythingEnabled, envFeats, flagFeats,
          cfg, supPc, servePc, ctxDone, errC, listenErr, received, selected, ret, io,
          served,
          signalled, signalFirst>>

(***************************************************************************)
(* Bounds and input sets.                                                  *)
(***************************************************************************)
\* longest list handed to EnableFeatures
MaxNames == 3

\* the names the calls are made with; "everything" is the sentinel of
\* EnableFeature and, like any string, also a legal key of AddFeature
Names == {"issues", "code_security", "everything"}

Descriptions == {"Issues related tools", "Updated description"}

RECURSIVE SeqsUpTo(_, _)
SeqsUpTo(S, n) ==
    IF n = 0 THEN {<<>>}
    ELSE LET shorter == SeqsUpTo(S, n - 1)
         IN  shorter \cup {Append(s, x) : s \in {t \in shorter : Len(t) = n - 1}, x \in S}

(***************************************************************************)
(* pkg/features/features.go                                                *)
(***************************************************************************)
\* a Go map write m[k] = v
MapPut(m, k, v) == [n \in (DOMAIN m) \cup {k} |-> IF n = k THEN v ELSE m[n]]

\* error values: nil, and fmt.Errorf("feature %s does not exist", name)
NilErr == [failed |-> FALSE, name |-> ""]
ErrNotExist(name) == [failed |-> TRUE, name |-> name]

Feature(name, description, enabled) ==
    [Name |-> name, Description |-> description, Enabled |-> enabled]

NewFeatureSet == [Features |-> <<>>, everythingOn |-> FALSE]

\* mutant: re-registering merges with the entry already there
AddFeatureMerging(f, name, description, enabled) ==
    [f EXCEPT !.Features =
        MapPut(f.Features, name,
               Feature(name, description,
                       enabled \/ (name \in DOMAIN f.Features /\ f.Features[name].Enabled)))]

AddFeature(f, name, description, enabled) ==
    [f EXCEPT !.Features = MapPut(f.Features, name, Feature(name, description, enabled))]

\* mutant: the table is consulted before the override
IsEnabledLookupFirst(f, name) ==
    IF name \notin DOMAIN f.Features THEN FALSE
    ELSE IF f.everythingOn THEN TRUE
    ELSE f.Features[name].Enabled

\* mutant: an unknown name counts as enabled (fail-open)
IsEnabledFailOpen(f, name) ==
    IF f.everythingOn THEN TRUE
    ELSE IF name \notin DOMAIN f.Features THEN TRUE
    ELSE f.Features[name].Enabled

IsEnabled(f, name) ==
    IF f.everythingOn THEN TRUE
    ELSE IF name \notin DOMAIN f.Features THEN FALSE
    ELSE f.Features[name].Enabled

\* mutant: an unknown name is registered and enabled instead of refused
EnableFeatureUpsert(f, name) ==
    IF name = "everything"
    THEN [fs |-> [f EXCEPT !.everythingOn = TRUE], err |-> NilErr]
    ELSE [fs |-> [f EXCEPT !.Features =
                     MapPut(f.Features, name,
                            IF name \in DOMAIN f.Features
                            THEN [f.Features[name] EXCEPT !.Enabled = TRUE]
                            ELSE Feature(name, "", TRUE))],
          err |-> NilErr]

\* mutant: enabling one name switches the override on
EnableFeatureGlobal(f, name) ==
    IF name = "everything" \/ name \in DOMAIN f.Features
    THEN [fs |-> [f EXCEPT !.everythingOn = TRUE], err |-> NilErr]
    ELSE [fs |-> f, err |-> ErrNotExist(name)]

\* the result pair: the FeatureSet after the call and the error returned
EnableFeature(f, name) ==
    IF name = "everything"
    THEN [fs |-> [f EXCEPT !.everythingOn = TRUE], err |-> NilErr]
    ELSE IF name \notin DOMAIN f.Features
    THEN [fs |-> f, err |-> ErrNotExist(name)]
    ELSE [fs |-> [f EXCEPT !.Features =
                     MapPut(f.Features, name, [f.Features[name] EXCEPT !.Enabled = TRUE])],
          err |-> NilErr]

\* mutant: best effort, the loop goes on after a failure and returns the first error
RECURSIVE EnableFeaturesBestEffort(_, _)
EnableFeaturesBestEffort(f, names) ==
    IF names = <<>> THEN [fs |-> f, err |-> NilErr]
    ELSE LET r == EnableFeature(f, Head(names))
             rest == EnableFeaturesBestEffort(r.fs, Tail(names))
         IN  [fs |-> rest.fs, err |-> IF r.err.failed THEN r.err ELSE rest.err]

\* for _, name := range names: the first error returns at once
RECURSIVE EnableFeatures(_, _)
EnableFeatures(f, names) ==
    IF names = <<>> THEN [fs |-> f, err |-> NilErr]
    ELSE LET r == EnableFeature(f, Head(names))
         IN  IF r.err.failed THEN r
             ELSE EnableFeatures(r.fs, Tail(names))

(***************************************************************************)
(* The calls, as actions on one FeatureSet.                                *)
(***************************************************************************)
Call(op, name, description, enabled, names, err, result, pre) ==
    [op |-> op, name |-> name, description |-> description, enabled |-> enabled,
     names |-> names, err |-> err, result |-> result, pre |-> pre]

NoCall == Call("none", "", "", FALSE, <<>>, NilErr, FALSE, NewFeatureSet)

\* the supervisor's variables before runStdioServer is entered
SrvIdle ==
    /\ cfg = [logCommands |-> FALSE, prettyPrintJSON |-> FALSE]
    /\ supPc = "idle"
    /\ servePc = "none"
    /\ ctxDone = FALSE
    /\ errC = <<>>
    /\ listenErr = "none"
    /\ received = "none"
    /\ selected = "none"
    /\ ret = "none"
    /\ io = [stdout |-> <<>>, log |-> <<>>]
    /\ served = <<>>
    /\ signalled = FALSE
    /\ signalFirst = FALSE

Init ==
    /\ fs = NewFeatureSet
    /\ last = NoCall
    /\ defaults = <<>>
    /\ enableCalled = FALSE
    /\ everythingEnabled = FALSE
    /\ envFeats = <<>>
    /\ flagFeats = <<>>
    /\ SrvIdle

AddFeatureCall ==
    \E name \in Names, description \in Descriptions, enabled \in BOOLEAN :
        /\ fs' = AddFeature(fs, name, description, enabled)
        /\ last' = Call("AddFeature", name, description, enabled, <<>>, NilErr, FALSE, fs)
        /\ defaults' = IF enableCalled THEN defaults ELSE MapPut(defaults, name, enabled)
        /\ UNCHANGED <<enableCalled, everythingEnabled, inVars, srvVars>>

IsEnabledCall ==
    \E name \in Names :
        /\ last' = Call("IsEnabled", name, "", FALSE, <<>>, NilErr, IsEnabled(fs, name), fs)
        /\ UNCHANGED <<fs, defaults, enableCalled, everythingEnabled, inVars, srvVars>>

EnableFeatureCall ==
    \E name \in Names :
        LET r == EnableFeature(fs, name)
        IN  /\ fs' = r.fs
            /\ last' = Call("EnableFeature", name, "", FALSE, <<>>, r.err, FALSE, fs)
            /\ enableCalled' = TRUE
            /\ defaults' = <<>>
            /\ everythingEnabled' = (everythingEnabled \/ (name = "everything" /\ ~r.err.failed))
            /\ UNCHANGED <<inVars, srvVars>>

\* the names of a list that EnableFeature was called with and returned nil for
Succeeded(f, names) ==
    {names[i] : i \in {j \in 1..Len(names) :
                          \A k \in 1..j : names[k] = "everything" \/ names[k] \in DOMAIN f.Features}}

EnableFeaturesCall ==
    \E names \in SeqsUpTo(Names, MaxNames) :
        LET r == EnableFeatures(fs, names)
        IN  /\ fs' = r.fs
            /\ last' = Call("EnableFeatures", "", "", FALSE, names, r.err, FALSE, fs)
            /\ enableCalled' = TRUE
            /\ defaults' = <<>>
            /\ everythingEnabled' = (everythingEnabled \/ "everything" \in Succeeded(fs, names))
            /\ UNCHANGED <<inVars, srvVars>>

Next ==
    \/ AddFeatureCall
    \/ IsEnabledCall
    \/ EnableFeatureCall
    \/ EnableFeaturesCall

Spec == Init /\ [][Next]_vars

(***************************************************************************)
(* initFeatures: the catalog, the environment value, the flag list.        *)
(*                                                                         *)
(* A Go string is a sequence of chunks: "," is one comma, " " one          *)
(* white-space character, every other chunk a run of characters holding    *)
(* neither.  Text(s) is the string itself, which is what the FeatureSet is *)
(* keyed by.                                                               *)
(***************************************************************************)
\* longest GITHUB_FEATURES value, in chunks
MaxEnvLen == 4

\* longest --features list
MaxFlags == 2

Comma == ","

WhiteSpace == {" "}

Chunks == {"repos", "issues", "everything", Comma, " "}

FlagNames == {"repos", "search", "everything", "bogus"}

\* the default of the --features flag
DefaultFeatures == <<"repos", "issues", "pull_requests", "search">>

RECURSIVE Text(_)
Text(s) == IF s = <<>> THEN "" ELSE Head(s) \o Text(Tail(s))

\* strings.Split(s, ","): cut at the first separator, then split the rest
RECURSIVE Split(_)
Split(s) ==
    LET at == {i \in 1..Len(s) : s[i] = Comma}
    IN  IF at = {} THEN <<s>>
        ELSE LET i == CHOOSE m \in at : \A n \in at : m <= n
             IN  <<SubSeq(s, 1, i - 1)>> \o Split(SubSeq(s, i + 1, Len(s)))

\* strings.TrimSpace(s): the leading and the trailing white space are cut
RECURSIVE TrimLeft(_)
TrimLeft(s) == IF s # <<>> /\ Head(s) \in WhiteSpace THEN TrimLeft(Tail(s)) ELSE s

RECURSIVE TrimRight(_)
TrimRight(s) ==
    IF s # <<>> /\ s[Len(s)] \in WhiteSpace THEN TrimRight(SubSeq(s, 1, Len(s) - 1)) ELSE s

TrimSpace(s) == TrimRight(TrimLeft(s))

\* mutant: the environment entries are appended to the flag list
ResolveFeaturesMerge(passedFeatures, env) ==
    IF Text(env) # ""
    THEN passedFeatures \o [i \in 1..Len(Split(env)) |-> Text(TrimSpace(Split(env)[i]))]
    ELSE passedFeatures

\* "Env gets precedence over command line flags": the list handed to EnableFeatures
ResolveFeatures(passedFeatures, env) ==
    IF Text(env) # ""
    THEN [i \in 1..Len(Split(env)) |-> Text(TrimSpace(Split(env)[i]))]
    ELSE passedFeatures

\* the registry as initFeatures fills it before enabling anything
Catalog ==
    LET f1 == AddFeature(NewFeatureSet, "repos", "Repository related tools", FALSE)
        f2 == AddFeature(f1, "issues", "Issues related tools", FALSE)
        f3 == AddFeature(f2, "search", "Search related tools", FALSE)
        f4 == AddFeature(f3, "pull_requests", "Pull request related tools", FALSE)
        f5 == AddFeature(f4, "code_security", "Code security related tools", FALSE)
    IN  AddFeature(f5, "experiments",
                   "Experimental features that are not considered stable yet", FALSE)

\* initFeatures: the list applied, the error, and the FeatureSet built (returned
\* to the caller only when the error is nil)
initFeatures(passedFeatures, env) ==
    LET applied == ResolveFeatures(passedFeatures, env)
        r == EnableFeatures(Catalog, applied)
    IN  [fs |-> r.fs, err |-> r.err, applied |-> applied]

InitEnv ==
    /\ fs = NewFeatureSet
    /\ last = NoCall
    /\ defaults = <<>>
    /\ enableCalled = FALSE
    /\ everythingEnabled = FALSE
    /\ envFeats \in SeqsUpTo(Chunks, MaxEnvLen)
    /\ flagFeats \in SeqsUpTo(FlagNames, MaxFlags) \cup {DefaultFeatures}
    /\ SrvIdle

\* last.result: a FeatureSet was returned (the error is nil)
initFeaturesCall ==
    /\ last.op = "none"
    /\ LET r == initFeatures(flagFeats, envFeats)
       IN  /\ fs' = r.fs
           /\ last' = Call("initFeatures", "", "", FALSE, r.applied, r.err,
                           ~r.err.failed, Catalog)
           /\ defaults' = <<>>
           /\ enableCalled' = TRUE
           /\ everythingEnabled' = ("everything" \in Succeeded(Catalog, r.applied))
    /\ UNCHANGED <<inVars, srvVars>>

NextInit == initFeaturesCall

SpecInit == InitEnv /\ [][NextInit]_vars

(***************************************************************************)
(* The output decoration of runStdioServer.                                *)
(*                                                                         *)
(* A write is a sequence of JSON tokens: punctuation, string and number    *)
(* literals, white-space characters.                                       *)
(***************************************************************************)
\* most Write calls of the server in one run
MaxWrites == 2

StringToks == {"\"jsonrpc\"", "\"2.0\"", "\"id\"", "\"result\""}

ScalarToks == {"1"}

SpaceToks == {" ", "\t", "\n"}

\* what the server hands to Write: compact JSON, a newline after it
Messages ==
    { <<"{", "}", "\n">>,
      <<"{", "\"id\"", ":", "1", "}", "\n">>,
      <<"{", "\"jsonrpc\"", ":", "\"2.0\"", ",", "\"id\"", ":", "1", ",",
        "\"result\"", ":", "[", "{", "}", ",", "1", "]", "}", "\n">>,
      <<"[", "]">>,
      <<"{", "\"id\"", ":", "\n">> }

Pop(stack) == SubSeq(stack, 1, Len(stack) - 1)

SetTop(stack, x) == Append(Pop(stack), x)

\* the scanner's state after a value is complete
AfterValue(stack) == IF stack = <<>> THEN "endTop" ELSE "endValue"

\* one step of encoding/json's scanner on token c: v is "skip" (white space
\* inside the value), "error", or "ok"
ScanStep(st, stack, c) ==
    LET err == [v |-> "error", st |-> st, stack |-> stack]
        ok(st2, stack2) == [v |-> "ok", st |-> st2, stack |-> stack2]
        close == ok(AfterValue(Pop(stack)), Pop(stack))
        value ==
            IF c = "{" THEN ok("beginStringOrEmpty", Append(stack, "objectKey"))
            ELSE IF c = "[" THEN ok("beginValueOrEmpty", Append(stack, "arrayValue"))
            ELSE IF c \in StringToks \cup ScalarToks THEN ok(AfterValue(stack), stack)
            ELSE err
        key == IF c \in StringToks THEN ok("endValue", stack) ELSE err
    IN  IF c \in SpaceToks
        THEN IF st = "endTop" THEN ok(st, stack)
             ELSE [v |-> "skip", st |-> st, stack |-> stack]
        ELSE CASE st = "beginValue" -> value
               [] st = "beginValueOrEmpty" -> IF c = "]" THEN close ELSE value
               [] st = "beginStringOrEmpty" -> IF c = "}" THEN close ELSE key
               [] st = "beginString" -> key
               [] st = "endValue" ->
                    (CASE stack[Len(stack)] = "objectKey" ->
                            IF c = ":" THEN ok("beginValue", SetTop(stack, "objectValue"))
                            ELSE err
                       [] stack[Len(stack)] = "objectValue" ->
                            IF c = "," THEN ok("beginString", SetTop(stack, "objectKey"))
                            ELSE IF c = "}" THEN close
                            ELSE err
                       [] stack[Len(stack)] = "arrayValue" ->
                            IF c = "," THEN ok("beginValue", stack)
                            ELSE IF c = "]" THEN close
                            ELSE err)
               [] st = "endTop" -> err

\* appendNewline with prefix "" and indent "\t"
RECURSIVE Tabs(_)
Tabs(depth) == IF depth = 0 THEN <<>> ELSE <<"\t">> \o Tabs(depth - 1)

Newline(depth) == <<"\n">> \o Tabs(depth)

\* the loop of json.Indent over src from token i on
RECURSIVE IndentFrom(_, _, _, _, _, _, _)
IndentFrom(src, i, st, stack, needIndent, depth, dst) ==
    IF i > Len(src)
    THEN IF st = "endTop" THEN [err |-> FALSE, bytes |-> dst]
         ELSE [err |-> TRUE, bytes |-> <<>>]
    ELSE LET c == src[i]
             s == ScanStep(st, stack, c)
             open == needIndent /\ c \notin {"}", "]"}
             depth1 == IF open THEN depth + 1 ELSE depth
             dst1 == IF open THEN dst \o Newline(depth1) ELSE dst
             need1 == IF open THEN FALSE ELSE needIndent
         IN  IF s.v = "skip"
             THEN IndentFrom(src, i + 1, s.st, s.stack, needIndent, depth, dst)
             ELSE IF s.v = "error" THEN [err |-> TRUE, bytes |-> <<>>]
             ELSE IF c \in {"{", "["}
             THEN IndentFrom(src, i + 1, s.st, s.stack, TRUE, depth1, Append(dst1, c))
             ELSE IF c = ","
             THEN IndentFrom(src, i + 1, s.st, s.stack, need1, depth1,
                             Append(dst1, c) \o Newline(depth1))
             ELSE IF c = ":"
             THEN IndentFrom(src, i + 1, s.st, s.stack, need1, depth1,
                             dst1 \o <<c, " ">>)
             ELSE IF c \in {"}", "]"}
             THEN IF need1
                  THEN IndentFrom(src, i + 1, s.st, s.stack, FALSE, depth1, Append(dst1, c))
                  ELSE IndentFrom(src, i + 1, s.st, s.stack, FALSE, depth1 - 1,
                                  Append(dst1 \o Newline(depth1 - 1), c))
             ELSE IndentFrom(src, i + 1, s.st, s.stack, need1, depth1, Append(dst1, c))

\* json.Indent(&prettyJSON, p, "", "\t")
Indent(p) == IndentFrom(p, 1, "beginValue", <<>>, FALSE, 0, <<>>)

\* os.Stdout.Write(p)
StdoutWrite(p, sinks) == [err |-> FALSE, io |-> [sinks EXCEPT !.stdout = Append(@, p)]]

\* IOLogger.Write(p): p is mirrored to the log sink, then passed on unchanged
IOLoggerWrite(p, sinks) == StdoutWrite(p, [sinks EXCEPT !.log = Append(@, p)])

\* `out` after the logCommands step: the IOLogger around os.Stdout, or os.Stdout
LoggedOut(c, p, sinks) ==
    IF c.logCommands THEN IOLoggerWrite(p, sinks) ELSE StdoutWrite(p, sinks)

\* JSONPrettyPrintWriter{writer: out}.Write(p): an Indent error fails the write
\* with nothing written; otherwise the indented bytes go to j.writer
JSONPrettyPrintWriterWrite(c, p, sinks) ==
    LET prettyJSON == Indent(p)
    IN  IF prettyJSON.err THEN [err |-> TRUE, io |-> sinks]
        ELSE LoggedOut(c, prettyJSON.bytes, sinks)

\* mutant: the decorators composed the other way round, logging outermost
OutWriteLoggingOutermost(c, p, sinks) ==
    LET mirrored == IF c.logCommands THEN [sinks EXCEPT !.log = Append(@, p)] ELSE sinks
        prettyJSON == Indent(p)
    IN  IF ~c.prettyPrintJSON THEN StdoutWrite(p, mirrored)
        ELSE IF prettyJSON.err THEN [err |-> TRUE, io |-> mirrored]
        ELSE StdoutWrite(prettyJSON.bytes, mirrored)

\* the writer `out` the goroutine hands to Listen: os.Stdout, wrapped by the
\* IOLogger if logCommands, then by JSONPrettyPrintWriter if prettyPrintJSON
OutWrite(c, p, sinks) ==
    IF c.prettyPrintJSON THEN JSONPrettyPrintWriterWrite(c, p, sinks)
    ELSE LoggedOut(c, p, sinks)

(***************************************************************************)
(* runStdioServer: the supervisor, the serve goroutine, the signal.        *)
(***************************************************************************)
\* errC := make(chan error, 1)
ChanCap == 1

InitSrv ==
    /\ fs = Catalog
    /\ last = NoCall
    /\ defaults = <<>>
    /\ enableCalled = FALSE
    /\ everythingEnabled = FALSE
    /\ envFeats = <<>>
    /\ flagFeats = <<>>
    /\ cfg \in [logCommands : BOOLEAN, prettyPrintJSON : BOOLEAN]
    /\ supPc = "start"
    /\ servePc = "none"
    /\ ctxDone = FALSE
    /\ errC = <<>>
    /\ listenErr = "none"
    /\ received = "none"
    /\ selected = "none"
    /\ ret = "none"
    /\ io = [stdout |-> <<>>, log |-> <<>>]
    /\ served = <<>>
    /\ signalled = FALSE
    /\ signalFirst = FALSE

\* an error has been put on errC
ErrorReported == servePc = "done" /\ listenErr = "err"

\* SIGINT / SIGTERM while signal.NotifyContext is registered: ctx is cancelled;
\* a supervisor parked in its select is woken with the ctx.Done() case
Signal ==
    /\ supPc \in {"start", "go", "banner", "select", "parked"}
    /\ ~signalled
    /\ signalled' = TRUE
    /\ signalFirst' = ~ErrorReported
    /\ ctxDone' = TRUE
    /\ IF supPc = "parked"
       THEN supPc' = "woken" /\ selected' = "done"
       ELSE UNCHANGED <<supPc, selected>>
    /\ UNCHANGED <<regVars, inVars, cfg, servePc, errC, listenErr, received, ret,
                   io, served>>

\* the token is missing: cfg.logger.Fatal ends the process
StartupFatal ==
    /\ supPc = "start"
    /\ supPc' = "exited"
    /\ UNCHANGED <<regVars, inVars, cfg, servePc, ctxDone, errC, listenErr, received,
                   selected, ret, io, served, signalled, signalFirst>>

\* WithEnterpriseURLs fails: the error is returned, the deferred stop() cancels ctx
StartupHostError ==
    /\ supPc = "start"
    /\ supPc' = "returned"
    /\ ret' = "host_error"
    /\ ctxDone' = TRUE
    /\ UNCHANGED <<regVars, inVars, cfg, servePc, errC, listenErr, received, selected,
                   io, served, signalled, signalFirst>>

\* client and server are built
StartupOk ==
    /\ supPc = "start"
    /\ supPc' = "go"
    /\ UNCHANGED <<regVars, inVars, cfg, servePc, ctxDone, errC, listenErr, received,
                   selected, ret, io, served, signalled, signalFirst>>

\* errC is made and the goroutine started
Spawn ==
    /\ supPc = "go"
    /\ supPc' = "banner"
    /\ servePc' = "listen"
    /\ UNCHANGED <<regVars, inVars, cfg, ctxDone, errC, listenErr, received, selected,
                   ret, io, served, signalled, signalFirst>>

\* the banner is written to os.Stderr
Banner ==
    /\ supPc = "banner"
    /\ supPc' = "select"
    /\ UNCHANGED <<regVars, inVars, cfg, servePc, ctxDone, errC, listenErr, received,
                   selected, ret, io, served, signalled, signalFirst>>

\* mutant: the cancellation case returns ctx.Err()
SelectReturnCtxErr(case, v) ==
    IF case = "done" \/ v = "err" THEN "run_error" ELSE "nil"

\* what runStdioServer returns from its select
SelectReturn(case, v) ==
    IF case = "errC" /\ v = "err" THEN "run_error" ELSE "nil"

\* the select finds ctx.Done() ready and takes it (if errC is ready too, Go
\* chooses between the two at random)
SelectDone ==
    /\ supPc = "select"
    /\ ctxDone
    /\ supPc' = "returned"
    /\ ret' = SelectReturn("done", "none")
    /\ UNCHANGED <<regVars, inVars, cfg, servePc, ctxDone, errC, listenErr, received,
                   selected, io, served, signalled, signalFirst>>

\* the select finds errC ready and takes it; the deferred stop() cancels ctx
SelectErrC ==
    /\ supPc = "select"
    /\ errC # <<>>
    /\ supPc' = "returned"
    /\ received' = Head(errC)
    /\ errC' = Tail(errC)
    /\ ret' = SelectReturn("errC", Head(errC))
    /\ ctxDone' = TRUE
    /\ UNCHANGED <<regVars, inVars, cfg, servePc, listenErr, selected, io, served,
                   signalled, signalFirst>>

\* the select finds no case ready and parks the goroutine
SelectPark ==
    /\ supPc = "select"
    /\ ~ctxDone
    /\ errC = <<>>
    /\ supPc' = "parked"
    /\ UNCHANGED <<regVars, inVars, cfg, servePc, ctxDone, errC, listenErr, received,
                   selected, ret, io, served, signalled, signalFirst>>

\* the parked select resumes with the case that woke it; stop() cancels ctx
SelectWake ==
    /\ supPc = "woken"
    /\ supPc' = "returned"
    /\ ret' = SelectReturn(selected, received)
    /\ ctxDone' = TRUE
    /\ UNCHANGED <<regVars, inVars, cfg, servePc, errC, listenErr, received, selected,
                   io, served, signalled, signalFirst>>

\* Listen writes a message to out
ServeWrite ==
    /\ servePc = "listen"
    /\ Len(served) < MaxWrites
    /\ \E p \in Messages :
          LET r == OutWrite(cfg, p, io)
          IN  /\ io' = r.io
              /\ served' = Append(served, [p |-> p, err |-> r.err])
    /\ UNCHANGED <<regVars, inVars, cfg, supPc, servePc, ctxDone, errC, listenErr,
                   received, selected, ret, signalled, signalFirst>>

\* Listen returns: nil when the input ends, an error on an I/O failure or once it
\* sees ctx cancelled
ListenReturns ==
    /\ servePc = "listen"
    /\ \E e \in {"nil", "err"} : listenErr' = e
    /\ servePc' = "send"
    /\ UNCHANGED <<regVars, inVars, cfg, supPc, ctxDone, errC, received, selected, ret,
                   io, served, signalled, signalFirst>>

\* errC <- (what Listen returned): handed to a supervisor parked in its select,
\* put in the buffer otherwise
ServeSend ==
    /\ servePc = "send"
    /\ servePc' = "done"
    /\ IF supPc = "parked"
       THEN /\ supPc' = "woken"
            /\ selected' = "errC"
            /\ received' = listenErr
            /\ UNCHANGED errC
       ELSE /\ Len(errC) < ChanCap
            /\ errC' = Append(errC, listenErr)
            /\ UNCHANGED <<supPc, selected, received>>
    /\ UNCHANGED <<regVars, inVars, cfg, ctxDone, listenErr, ret, io, served,
                   signalled, signalFirst>>

Supervisor ==
    \/ StartupFatal
    \/ StartupHostError
    \/ StartupOk
    \/ Spawn
    \/ Banner
    \/ SelectDone
    \/ SelectErrC
    \/ SelectPark
    \/ SelectWake

ServeTask ==
    \/ ServeWrite
    \/ ListenReturns
    \/ ServeSend

NextSrv ==
    \/ Signal
    \/ Supervisor
    \/ ServeTask

SpecSrv == InitSrv /\ [][NextSrv]_vars

\* the Go scheduler runs a goroutine that can take a step: the supervisor's
\* statements and the buffered send (Listen may stay blocked in its read)
SpecSrvFair == SpecSrv /\ WF_vars(Supervisor) /\ WF_vars(ServeSend)

(***************************************************************************)
(* Claims about the FeatureSet (checked under Spec).                       *)
(***************************************************************************)
\* a name no call ever registers, as "non-existent" in the package's tests
NonExistent == "non-existent"

QueryNames == Names \cup {NonExistent}

Registered(f) == DOMAIN f.Features

\* C1: once EnableFeature("everything") has returned nil (directly or inside
\* EnableFeatures), IsEnabled answers true for every name, registered or not,
\* whatever AddFeature / EnableFeature / EnableFeatures calls follow.
C1_EverythingSticks ==
    everythingEnabled => \A x \in QueryNames : IsEnabled(fs, x)

\* the override is on and a later AddFeature(x, _, false) or failed enable has run
C1_Witness ==
    /\ everythingEnabled
    /\ last.pre.everythingOn
    /\ \/ last.op = "AddFeature" /\ ~last.enabled
       \/ last.op = "EnableFeatures" /\ last.err.failed
    /\ NonExistent \notin Registered(fs)

\* C2: without the override IsEnabled is false for an unregistered name and the
\* stored Enabled for a registered one; before any enable call that is the default
\* of the last AddFeature; an IsEnabled call returns that answer, without error,
\* and leaves the FeatureSet as it was.
C2_IsEnabledStored ==
    /\ ~fs.everythingOn =>
          \A n \in QueryNames :
              IsEnabled(fs, n) = (n \in Registered(fs) /\ fs.Features[n].Enabled)
    /\ ~enableCalled =>
          /\ Registered(fs) = DOMAIN defaults
          /\ \A n \in Registered(fs) : IsEnabled(fs, n) = defaults[n]
    /\ last.op = "IsEnabled" =>
          /\ fs = last.pre
          /\ ~last.err.failed
          /\ last.result \in BOOLEAN
          /\ ~last.pre.everythingOn =>
                last.result = (last.name \in Registered(last.pre)
                               /\ last.pre.Features[last.name].Enabled)

\* IsEnabled asked for an unregistered name while another name is registered
\* enabled by default and no enable call has been made
C2_Witness ==
    /\ last.op = "IsEnabled"
    /\ ~enableCalled
    /\ last.name \notin Registered(fs)
    /\ last.result = FALSE
    /\ \E n \in Registered(fs) : defaults[n] /\ IsEnabled(fs, n)
    /\ \E n \in Registered(fs) : ~defaults[n] /\ ~IsEnabled(fs, n)

\* C3: EnableFeature(name), name not "everything", fails exactly when name is not
\* registered, and a failed call leaves the FeatureSet unchanged.
C3_EnableUnknownFails ==
    (last.op = "EnableFeature" /\ last.name # "everything") =>
        /\ last.err.failed <=> last.name \notin Registered(last.pre)
        /\ last.err.failed =>
              /\ fs = last.pre
              /\ last.name \notin Registered(fs)
              /\ IsEnabled(fs, last.name) = IsEnabled(last.pre, last.name)

\* a failed EnableFeature on a FeatureSet that holds other entries
C3_Witness ==
    /\ last.op = "EnableFeature"
    /\ last.name # "everything"
    /\ last.err.failed
    /\ last.err.name = last.name
    /\ Registered(fs) # {}

\* the position of the first name of the list EnableFeature refuses (0: none)
FirstInvalid(f, names) ==
    LET bad == {i \in 1..Len(names) :
                   names[i] # "everything" /\ names[i] \notin Registered(f)}
    IN  IF bad = {} THEN 0 ELSE CHOOSE i \in bad : \A j \in bad : i <= j

\* C4 as stated: with an unregistered name in the list, EnableFeatures fails, every
\* name before the first invalid one is enabled and every name after it is not.
C4_Original ==
    LET k == FirstInvalid(last.pre, last.names)
    IN  (last.op = "EnableFeatures" /\ k > 0) =>
            /\ last.err.failed
            /\ \A i \in 1..(k - 1) : IsEnabled(fs, last.names[i])
            /\ \A j \in (k + 1)..Len(last.names) : ~IsEnabled(fs, last.names[j])

\* C4 amended: the call fails with the error of the first invalid name, every name
\* before it is enabled, and a name after it is enabled afterwards exactly if it was
\* enabled before the call, also stands before the invalid name, or "everything"
\* stands before the invalid name; what is stored for it is untouched otherwise.
C4_ShortCircuit ==
    LET k == FirstInvalid(last.pre, last.names)
        before == {last.names[i] : i \in 1..(k - 1)}
    IN  (last.op = "EnableFeatures" /\ k > 0) =>
            /\ last.err = ErrNotExist(last.names[k])
            /\ \A n \in before : IsEnabled(fs, n)
            /\ Registered(fs) = Registered(last.pre)
            /\ \A j \in (k + 1)..Len(last.names) :
                  LET n == last.names[j]
                  IN  /\ IsEnabled(fs, n) =
                            (IsEnabled(last.pre, n) \/ n \in before \/ "everything" \in before)
                      /\ (n \in Registered(fs) /\ n \notin before) =>
                            fs.Features[n] = last.pre.Features[n]

\* a failed batch with a valid name before the invalid one and, after it, a
\* registered name that stays disabled
C4_Witness ==
    LET k == FirstInvalid(last.pre, last.names)
    IN  /\ last.op = "EnableFeatures"
        /\ k = 2
        /\ Len(last.names) = 3
        /\ last.names[3] \in Registered(fs)
        /\ ~IsEnabled(last.pre, last.names[1])
        /\ IsEnabled(fs, last.names[1])
        /\ ~IsEnabled(fs, last.names[3])

\* C5: AddFeature is an upsert: the entry of name is exactly the new values, the
\* table grows by one only for a new name, every other entry and the override are
\* unchanged, and repeating the call changes nothing.
C5_AddFeatureUpsert ==
    last.op = "AddFeature" =>
        /\ ~last.err.failed
        /\ Registered(fs) = Registered(last.pre) \cup {last.name}
        /\ fs.Features[last.name] = Feature(last.name, last.description, last.enabled)
        /\ Cardinality(Registered(fs)) =
              Cardinality(Registered(last.pre))
                 + (IF last.name \in Registered(last.pre) THEN 0 ELSE 1)
        /\ \A n \in Registered(fs) \ {last.name} : fs.Features[n] = last.pre.Features[n]
        /\ AddFeature(fs, last.name, last.description, last.enabled) = fs

\* a name enabled by an earlier enable call is re-registered disabled with another
\* description
C5_Witness ==
    /\ last.op = "AddFeature"
    /\ last.name \in Registered(last.pre)
    /\ enableCalled
    /\ last.pre.Features[last.name].Enabled
    /\ ~last.enabled
    /\ last.pre.Features[last.name].Description # last.description
    /\ Cardinality(Registered(fs)) > 1

\* C6: EnableFeature on a registered name (not "everything") returns nil, leaves
\* the name enabled, is idempotent, and changes neither the description, nor any
\* other entry, nor the override; with every entry disabled, enabling
\* "code_security" leaves IsEnabled("issues") false.
C6_EnableFrame ==
    (last.op = "EnableFeature" /\ last.name # "everything"
        /\ last.name \in Registered(last.pre)) =>
        /\ ~last.err.failed
        /\ fs.Features[last.name].Enabled
        /\ IsEnabled(fs, last.name)
        /\ EnableFeature(fs, last.name) = [fs |-> fs, err |-> NilErr]
        /\ fs.Features[last.name].Description = last.pre.Features[last.name].Description
        /\ fs.Features[last.name].Name = last.pre.Features[last.name].Name
        /\ Registered(fs) = Registered(last.pre)
        /\ \A n \in Registered(fs) \ {last.name} : fs.Features[n] = last.pre.Features[n]
        /\ fs.everythingOn = last.pre.everythingOn
        /\ (/\ last.name = "code_security"
            /\ ~last.pre.everythingOn
            /\ \A n \in Registered(last.pre) : ~last.pre.Features[n].Enabled)
              => ~IsEnabled(fs, "issues")

\* "issues" and "code_security" registered disabled, "code_security" enabled
C6_Witness ==
    /\ last.op = "EnableFeature"
    /\ last.name = "code_security"
    /\ {"issues", "code_security"} \subseteq Registered(last.pre)
    /\ \A n \in Registered(last.pre) : ~last.pre.Features[n].Enabled
    /\ ~fs.everythingOn
    /\ IsEnabled(fs, "code_security")
    /\ ~IsEnabled(fs, "issues")


(***************************************************************************)
(* Claim about initFeatures (checked under SpecInit).                      *)
(***************************************************************************)
\* the entries of an environment value, read off the positions of its commas:
\* entry k lies between the (k-1)-th and the k-th comma, and what is kept of it
\* runs from its first to its last chunk that is not white space
CommaAt(env) == {i \in 1..Len(env) : env[i] = Comma}

NthComma(env, k) ==
    IF k = 0 THEN 0
    ELSE IF k > Cardinality(CommaAt(env)) THEN Len(env) + 1
    ELSE CHOOSE i \in CommaAt(env) : Cardinality({j \in CommaAt(env) : j <= i}) = k

EntryText(env, k) ==
    LET lo == NthComma(env, k - 1) + 1
        hi == NthComma(env, k) - 1
        solid == {i \in lo..hi : env[i] \notin WhiteSpace}
    IN  IF solid = {} THEN ""
        ELSE LET a == CHOOSE i \in solid : \A j \in solid : i <= j
                 b == CHOOSE i \in solid : \A j \in solid : j <= i
             IN  Text(SubSeq(env, a, b))

EnvEntries(env) == [k \in 1..(Cardinality(CommaAt(env)) + 1) |-> EntryText(env, k)]

Range(s) == {s[i] : i \in 1..Len(s)}

\* C7: with a non-empty environment value the list applied is its comma-split,
\* trimmed entries in order and nothing from the flag list; with an empty one it is
\* the flag list; in a returned registry the enabled names are exactly those of the
\* applied list, or all names if it holds "everything".
C7_EnvReplacesFlags ==
    last.op = "initFeatures" =>
        /\ envFeats # <<>> =>
              /\ last.names = EnvEntries(envFeats)
              /\ \A n \in Range(flagFeats) \ Range(EnvEntries(envFeats)) :
                    /\ n \notin Range(last.names)
                    /\ (last.result /\ "everything" \notin Range(last.names))
                          => ~IsEnabled(fs, n)
        /\ envFeats = <<>> => last.names = flagFeats
        /\ last.result =>
              \A n \in Registered(Catalog) \cup FlagNames \cup {NonExistent} :
                  IsEnabled(fs, n) <=>
                      (n \in Range(last.names) \/ "everything" \in Range(last.names))

\* " repos,issues" in the environment and a flag list naming only "search": the
\* registry is returned with repos and issues enabled and search disabled
C7_Witness ==
    /\ last.op = "initFeatures"
    /\ last.result
    /\ \E i \in 1..Len(envFeats) : envFeats[i] \in WhiteSpace
    /\ last.names = <<"repos", "issues">>
    /\ flagFeats = <<"search">>
    /\ IsEnabled(fs, "repos")
    /\ IsEnabled(fs, "issues")
    /\ ~IsEnabled(fs, "search")

(***************************************************************************)
(* Claims about runStdioServer (checked under SpecSrv and SpecSrvFair).    *)
(***************************************************************************)
WriteOk(w) == ~w.err

\* the messages whose Write returned without error, in order
Written == SelectSeq(served, WriteOk)

BothDecorators == cfg.logCommands /\ cfg.prettyPrintJSON

\* a compact message holding an object or array that is not empty, which
\* indenting spreads over several lines
HasMembers(p) ==
    \E i \in 1..(Len(p) - 1) : p[i] \in {"{", "["} /\ p[i + 1] \notin {"}", "]"}

\* C8 as stated: with logging and pretty-print both on, the log sink holds the
\* compact bytes of every message written and standard output the indented ones.
C8_Original ==
    BothDecorators =>
        /\ Len(io.log) = Len(Written)
        /\ Len(io.stdout) = Len(Written)
        /\ \A i \in 1..Len(Written) :
              /\ io.log[i] = Written[i].p
              /\ io.stdout[i] = Indent(Written[i].p).bytes

\* C8 amended: with both on, the log sink holds the indented bytes of every
\* message written, the same bytes standard output receives; they differ from the
\* compact bytes whenever the message holds a non-empty object or array.
C8_LogHoldsIndentedBytes ==
    BothDecorators =>
        /\ Len(io.log) = Len(Written)
        /\ Len(io.stdout) = Len(Written)
        /\ \A i \in 1..Len(Written) :
              /\ io.log[i] = io.stdout[i]
              /\ io.stdout[i] = Indent(Written[i].p).bytes
              /\ HasMembers(Written[i].p) =>
                    /\ io.log[i] # Written[i].p
                    /\ Len(io.log[i]) > Len(Written[i].p)

\* {"id":1}\n was written with both decorators on, and a malformed message refused
C8_Witness ==
    /\ BothDecorators
    /\ Len(served) = 2
    /\ served[1] = [p |-> <<"{", "\"id\"", ":", "1", "}", "\n">>, err |-> FALSE]
    /\ served[2].err
    /\ io.log = << <<"{", "\n", "\t", "\"id\"", ":", " ", "1", "\n", "}", "\n">> >>
    /\ io.stdout = io.log

\* C9: if the signal is delivered before the serve task has put any error on the
\* result channel, runStdioServer returns nil.
C9_SignalCleanShutdown ==
    (supPc = "returned" /\ servePc # "none" /\ signalFirst) => ret = "nil"

\* what holds of the supervisor's result in every state
SupervisorSafety ==
    /\ (supPc = "returned" /\ ret = "run_error") =>
          (received = "err" /\ servePc = "done" /\ listenErr = "err")
    /\ (supPc = "returned" /\ ret = "host_error") => servePc = "none"
    /\ (supPc = "returned" /\ received = "nil") => ret = "nil"
    /\ supPc = "woken" => selected # "none"
    /\ received # "none" => (servePc = "done" /\ received = listenErr /\ errC = <<>>)
    /\ supPc = "returned" <=> ret # "none"
    /\ servePc = "send" => (supPc = "parked" \/ Len(errC) < ChanCap)
    /\ (servePc = "done" /\ received = "none") => errC = <<listenErr>>
    /\ servePc # "done" => errC = <<>>

Running == supPc \in {"go", "banner", "select", "parked", "woken"}

\* C10: runStdioServer returns an error after startup only for a non-nil error
\* it received from errC, returns nil when it receives nil, returns eventually
\* once the signal was delivered or Listen has returned, and the serve task's one
\* send on errC always goes through.
C10_OutcomeOnce ==
    /\ []SupervisorSafety
    /\ (Running /\ (signalled \/ listenErr # "none")) ~> (supPc = "returned")
    /\ (servePc = "send") ~> (servePc = "done")

\* the supervisor had returned on the signal when Listen returned an error,
\* which was then put on errC
C10_Witness ==
    /\ supPc = "returned"
    /\ ret = "nil"
    /\ received = "none"
    /\ signalled
    /\ servePc = "done"
    /\ errC = <<"err">>

=============================================================================
